---- MODULE Spec2Model ----
(***************************************************************************)
(* Model of quart.wrappers.base.BaseRequestWebsocket: the class-level      *)
(* defaults of the routing fields, construction, attribute assignment and  *)
(* the derived properties max_content_length, endpoint, blueprint,         *)
(* blueprints, script_root and url_root.                                   *)
(*                                                                         *)
(* Python values are tagged records; a str is a sequence of characters,    *)
(* so that splitting and stripping are computed, not assumed.              *)
(***************************************************************************)
EXTENDS Integers, Sequences, FiniteSets, TLC

VARIABLES
    cls,    \* class attributes of BaseRequestWebsocket (name -> value)
    inst,   \* per request: the instance __dict__ (name -> value)
    args,   \* per request: the arguments __init__ was called with
    app,    \* what the current_app proxy is bound to (NoApp when unbound)
    ret,    \* the last operation and what it returned or raised
    pc,     \* per request: position in the dispatcher's lifecycle
    log     \* per request: resolver writes and view reads, in order

vars == <<cls, inst, args, app, ret, pc, log>>

--------------------------------------------------------------------------
\* Bounds of the model.

\* Longest endpoint name, in characters ("a.b.a" needs 5).
MaxLen == 5

\* Longest root_path argument, in characters.
MaxPathLen == 3

\* Longest per-request log of resolver writes and view reads.
MaxLog == 3

--------------------------------------------------------------------------
\* Python values.

None == [t |-> "None"]

PyStr(s) == [t |-> "str", s |-> s]

PyInt(n) == [t |-> "int", n |-> n]

PyList(xs) == [t |-> "list", items |-> xs]

PyDict(ks) == [t |-> "dict", keys |-> ks]

PyExc(name) == [t |-> "exc", name |-> name]

\* The outcome of an access that raised instead of returning.
Raise(name) == [t |-> "raise", exc |-> name]

QuartRule(e) == [t |-> "QuartRule", endpoint |-> PyStr(e)]

\* All sequences over chars of length at most n.
Strs(chars, n) == UNION {[1..k -> chars] : k \in 0..n}

EndpointChars == {"a", "b", "."}

Endpoints == Strs(EndpointChars, MaxLen)

PathChars == {"/", "a"}

RootPaths == Strs(PathChars, MaxPathLen)

Requests == {"r1", "r2"}

RoutingAttrs == {"routing_exception", "url_rule", "view_args"}

--------------------------------------------------------------------------
\* str methods, as CPython computes them.

\* "c in s"
Contains(s, c) == \E i \in 1..Len(s) : s[i] = c

\* s.rfind(c) scanning down from position i; 0 when absent (1-based).
RECURSIVE RFind(_, _, _)
RFind(s, c, i) ==
    IF i = 0 THEN 0
    ELSE IF s[i] = c THEN i
    ELSE RFind(s, c, i - 1)

\* s.rsplit(sep, 1): at most one split, at the rightmost separator.
RSplit1(s, sep) ==
    LET i == RFind(s, sep, Len(s))
    IN  IF i = 0 THEN <<s>>
        ELSE <<SubSeq(s, 1, i - 1), SubSeq(s, i + 1, Len(s))>>

\* s.rstrip(c)
RECURSIVE RStrip(_, _)
RStrip(s, c) ==
    IF Len(s) > 0 /\ s[Len(s)] = c THEN RStrip(SubSeq(s, 1, Len(s) - 1), c)
    ELSE s

\* s.lstrip(c)
RECURSIVE LStrip(_, _)
LStrip(s, c) ==
    IF Len(s) > 0 /\ s[1] = c THEN LStrip(Tail(s), c)
    ELSE s

\* method.upper() on the verbs the model constructs requests with.
Upper(m) == IF m = "get" THEN "GET" ELSE m

--------------------------------------------------------------------------
\* The class and its instances.

\* Mutants of the class-level defaults.
ClassDefaultsRuleSet ==
    [routing_exception |-> None,
     url_rule |-> QuartRule(<<"a">>),
     view_args |-> None]

ClassDefaultsDictArgs ==
    [routing_exception |-> None,
     url_rule |-> None,
     view_args |-> PyDict({})]

ClassDefaultsExcSet ==
    [routing_exception |-> PyExc("NotFound"),
     url_rule |-> None,
     view_args |-> None]

\* routing_exception, url_rule and view_args are class attributes, all None.
ClassDefaults ==
    [routing_exception |-> None,
     url_rule |-> None,
     view_args |-> None]

\* The arguments of one construction; only root_path varies.  headers and
\* scope are mappings: no Remote-Addr header, a server entry in the scope.
Args(rp) ==
    [method |-> "get", scheme |-> "http", path |-> <<"a">>,
     query_string |-> <<>>, headers |-> <<>>, root_path |-> rp,
     http_version |-> "1.1", scope |-> [server |-> "host"]]

\* mapping.get(key): the value, or None when the key is missing.
DictGet(d, key) == IF key \in DOMAIN d THEN d[key] ELSE None

\* SansIORequest.__init__: it stores its arguments, removing trailing "/"
\* from root_path, giving path exactly one leading "/" and upper-casing
\* the method.
SansIORequest_init(method, scheme, server, root_path, path, query, headers, addr) ==
    [method |-> Upper(method),
     scheme |-> scheme,
     server |-> server,
     root_path |-> PyStr(RStrip(root_path, "/")),
     path |-> PyStr(<<"/">> \o LStrip(path, "/")),
     query_string |-> query,
     headers |-> headers,
     remote_addr |-> addr]

\* __init__: the instance __dict__ after construction.  No routing field is
\* assigned: they are found on the class.
BaseRequestWebsocket_init(a) ==
    ("http_version" :> a.http_version) @@ ("scope" :> a.scope)
        @@ SansIORequest_init(a.method, a.scheme, DictGet(a.scope, "server"),
                              a.root_path, a.path, a.query_string, a.headers,
                              DictGet(a.headers, "Remote-Addr"))

\* Attribute lookup: the instance __dict__, then the class.
GetAttr(r, name) ==
    IF name \in DOMAIN inst[r] THEN inst[r][name] ELSE cls[name]

\* Mutant of SetAttr: the assignment lands on the class.
SetAttrOnClass(r, name, v) ==
    /\ cls' = [cls EXCEPT ![name] = v]
    /\ UNCHANGED inst

\* "request.name = v": binds name in the instance __dict__ of r only.
SetAttr(r, name, v) ==
    /\ inst' = [inst EXCEPT ![r] = (name :> v) @@ @]
    /\ UNCHANGED cls

--------------------------------------------------------------------------
\* The application context (quart.globals.current_app and its config).

NoApp == [t |-> "unbound"]

ConfigValues == {PyInt(1048576), None}

Configs ==
    {<<>>} \cup {("MAX_CONTENT_LENGTH" :> v) : v \in ConfigValues}

--------------------------------------------------------------------------
\* The derived properties.

\* Mutant of max_content_length: no test of current_app.
max_content_length_unguarded ==
    IF app = NoApp THEN Raise("RuntimeError")
    ELSE IF "MAX_CONTENT_LENGTH" \in DOMAIN app.config
         THEN app.config["MAX_CONTENT_LENGTH"]
         ELSE Raise("KeyError")

\* Mutant of max_content_length: the conditional's branches swapped.
max_content_length_inverted ==
    IF app # NoApp THEN None
    ELSE Raise("RuntimeError")

\* current_app.config["MAX_CONTENT_LENGTH"] if current_app else None
max_content_length ==
    IF app = NoApp THEN None
    ELSE IF "MAX_CONTENT_LENGTH" \in DOMAIN app.config
         THEN app.config["MAX_CONTENT_LENGTH"]
         ELSE Raise("KeyError")

\* self.url_rule.endpoint if self.url_rule is not None else None
endpoint(r) ==
    IF GetAttr(r, "url_rule") # None THEN GetAttr(r, "url_rule").endpoint
    ELSE None

\* Mutant of blueprint: splits at the first separator.
blueprint_first_dot(r) ==
    LET e == endpoint(r)
    IN  IF e # None /\ Contains(e.s, ".")
        THEN PyStr(SubSeq(e.s, 1,
                 (CHOOSE i \in 1..Len(e.s) :
                     e.s[i] = "." /\ \A j \in 1..(i - 1) : e.s[j] # ".") - 1))
        ELSE None

\* endpoint.rsplit(".", 1)[0] if endpoint has a "." else None
blueprint(r) ==
    LET e == endpoint(r)
    IN  IF e # None /\ Contains(e.s, ".")
        THEN PyStr(RSplit1(e.s, ".")[1])
        ELSE None

\* _split_blueprint_path: the blueprint's name, then each ancestor's.
RECURSIVE SplitBlueprintPath(_)
SplitBlueprintPath(name) ==
    IF Contains(name, ".")
    THEN <<PyStr(name)>> \o SplitBlueprintPath(RSplit1(name, ".")[1])
    ELSE <<PyStr(name)>>

\* Mutant of blueprints: splits the endpoint, not the blueprint.
blueprints_of_endpoint(r) ==
    IF blueprint(r) = None THEN PyList(<<>>)
    ELSE PyList(SplitBlueprintPath(endpoint(r).s))

\* [] if self.blueprint is None else _split_blueprint_path(self.blueprint)
blueprints(r) ==
    IF blueprint(r) = None THEN PyList(<<>>)
    ELSE PyList(SplitBlueprintPath(blueprint(r).s))

\* Mutant of script_root: returns the path.
script_root_path(r) == GetAttr(r, "path")

\* self.root_path
script_root(r) == GetAttr(r, "root_path")

\* self.root_url, which the base request computes from scheme, host and
\* root_path: "{scheme}://{host}{root_path}/".
url_root(r) ==
    PyStr(<<GetAttr(r, "scheme"), "://", GetAttr(r, "server")>>
              \o GetAttr(r, "root_path").s \o <<"/">>)

PropertyNames ==
    {"max_content_length", "endpoint", "blueprint", "blueprints",
     "script_root", "url_root"}

PropertyValue(r, op) ==
    CASE op = "max_content_length" -> max_content_length
      [] op = "endpoint" -> endpoint(r)
      [] op = "blueprint" -> blueprint(r)
      [] op = "blueprints" -> blueprints(r)
      [] op = "script_root" -> script_root(r)
      [] op = "url_root" -> url_root(r)

\* Mutant of Get: the first access stores its result in the instance
\* __dict__ under the property's name and later accesses return it.
GetCached(r, op) ==
    /\ IF op \in DOMAIN inst[r]
       THEN /\ ret' = [op |-> op, req |-> r, val |-> inst[r][op]]
            /\ UNCHANGED inst
       ELSE /\ ret' = [op |-> op, req |-> r, val |-> PropertyValue(r, op)]
            /\ inst' = [inst EXCEPT ![r] = (op :> PropertyValue(r, op)) @@ @]
    /\ UNCHANGED <<cls, app>>

\* A property access: computes the value from the current attributes and
\* binds nothing.
Get(r, op) ==
    /\ ret' = [op |-> op, req |-> r, val |-> PropertyValue(r, op)]
    /\ UNCHANGED <<cls, inst, app>>

--------------------------------------------------------------------------
\* Values the routing fields are assigned.

SomeRules ==
    {QuartRule(<<"a">>), QuartRule(<<"a", ".", "b">>),
     QuartRule(<<"a", ".", "b", ".", "a">>)}

AllRules == {QuartRule(e) : e \in Endpoints}

ViewArgsValues == {PyDict({}), PyDict({"id"})}

ExcValues == {PyExc("NotFound")}

--------------------------------------------------------------------------
\* Initial states: the requests in live constructed with the same
\* arguments, root_path drawn from paths; no application context.

InitRequests(live, paths) ==
    /\ cls = ClassDefaults
    /\ args \in {[r \in live |-> Args(rp)] : rp \in paths}
    /\ inst = [r \in live |-> BaseRequestWebsocket_init(args[r])]
    /\ app = NoApp
    /\ ret = [op |-> "construct", req |-> "all", val |-> None]
    /\ pc = [r \in live |-> "constructed"]
    /\ log = [r \in live |-> <<>>]

--------------------------------------------------------------------------
\* Operations on a request outside any lifecycle: assignments to the
\* routing fields and property reads, in any order.

Assign(r, name, v) ==
    /\ SetAttr(r, name, v)
    /\ ret' = [op |-> "setattr", req |-> r, val |-> PyStr(<<name>>)]
    /\ UNCHANGED <<args, app, pc, log>>

SetUrlRule(r, v) == Assign(r, "url_rule", v)

SetViewArgs(r, v) == Assign(r, "view_args", v)

SetRoutingException(r, v) == Assign(r, "routing_exception", v)

Read(r, op) ==
    /\ Get(r, op)
    /\ UNCHANGED <<args, pc, log>>

\* The application context: pushed and popped around a request, its config
\* a mutable mapping.
PushAppContext(cfg) ==
    /\ app = NoApp
    /\ app' = [t |-> "app", config |-> cfg]
    /\ ret' = [op |-> "app_context", req |-> "all", val |-> None]
    /\ UNCHANGED <<cls, inst, args, pc, log>>

PopAppContext ==
    /\ app # NoApp
    /\ app' = NoApp
    /\ ret' = [op |-> "app_context", req |-> "all", val |-> None]
    /\ UNCHANGED <<cls, inst, args, pc, log>>

SetConfig(v) ==
    /\ app # NoApp
    /\ app' = [app EXCEPT !.config = ("MAX_CONTENT_LENGTH" :> v)]
    /\ ret' = [op |-> "config", req |-> "all", val |-> None]
    /\ UNCHANGED <<cls, inst, args, pc, log>>

DelConfig ==
    /\ app # NoApp
    /\ "MAX_CONTENT_LENGTH" \in DOMAIN app.config
    /\ app' = [app EXCEPT !.config = <<>>]
    /\ ret' = [op |-> "config", req |-> "all", val |-> None]
    /\ UNCHANGED <<cls, inst, args, pc, log>>

Init == InitRequests({"r1"}, RootPaths)

Next ==
    \/ \E r \in DOMAIN inst, v \in {None} \cup SomeRules : SetUrlRule(r, v)
    \/ \E r \in DOMAIN inst, v \in {None} \cup ViewArgsValues : SetViewArgs(r, v)
    \/ \E r \in DOMAIN inst, v \in {None} \cup ExcValues : SetRoutingException(r, v)
    \/ \E r \in DOMAIN inst, op \in PropertyNames : Read(r, op)
    \/ \E cfg \in Configs : PushAppContext(cfg)
    \/ PopAppContext
    \/ \E v \in ConfigValues : SetConfig(v)
    \/ DelConfig

Spec == Init /\ [][Next]_vars

--------------------------------------------------------------------------
\* One request, every endpoint name up to MaxLen, the properties derived
\* from url_rule.

DerivedNames == {"endpoint", "blueprint", "blueprints"}

InitDerive == InitRequests({"r1"}, {<<"/", "a", "/">>})

NextDerive ==
    \/ \E r \in DOMAIN inst, v \in {None} \cup AllRules : SetUrlRule(r, v)
    \/ \E r \in DOMAIN inst, op \in DerivedNames : Read(r, op)

SpecDerive == InitDerive /\ [][NextDerive]_vars

--------------------------------------------------------------------------
\* Two requests constructed with identical arguments.

InitPair == InitRequests(Requests, {<<"/", "a">>})

PairRules == {QuartRule(<<"a">>), QuartRule(<<"a", ".", "b", ".", "a">>)}

NextPair ==
    \/ \E r \in DOMAIN inst, v \in {None} \cup PairRules : SetUrlRule(r, v)
    \/ \E r \in DOMAIN inst, v \in {PyDict({})} : SetViewArgs(r, v)
    \/ \E r \in DOMAIN inst, v \in ExcValues : SetRoutingException(r, v)

SpecPair == InitPair /\ [][NextPair]_vars

--------------------------------------------------------------------------
\* The lifecycle of one request: the dispatcher constructs it, the resolver
\* writes the routing result at most once, view code reads, the request is
\* discarded.

MatchRequest(r, rule, va) ==
    /\ pc[r] = "constructed"
    /\ inst' = [inst EXCEPT ![r] = ("url_rule" :> rule) @@ ("view_args" :> va) @@ @]
    /\ pc' = [pc EXCEPT ![r] = "dispatched"]
    /\ log' = [log EXCEPT ![r] = Append(@, "write")]
    /\ ret' = [op |-> "match_request", req |-> r, val |-> None]
    /\ UNCHANGED <<cls, args, app>>

MatchRequestFailed(r, e) ==
    /\ pc[r] = "constructed"
    /\ inst' = [inst EXCEPT ![r] = ("routing_exception" :> e) @@ @]
    /\ pc' = [pc EXCEPT ![r] = "dispatched"]
    /\ log' = [log EXCEPT ![r] = Append(@, "write")]
    /\ ret' = [op |-> "match_request", req |-> r, val |-> None]
    /\ UNCHANGED <<cls, args, app>>

NoMatch(r) ==
    /\ pc[r] = "constructed"
    /\ pc' = [pc EXCEPT ![r] = "dispatched"]
    /\ ret' = [op |-> "dispatch", req |-> r, val |-> None]
    /\ UNCHANGED <<cls, inst, args, app, log>>

ViewRead(r, op) ==
    /\ pc[r] = "dispatched"
    /\ Len(log[r]) < MaxLog
    /\ Get(r, op)
    /\ log' = [log EXCEPT ![r] = Append(@, "read")]
    /\ UNCHANGED <<args, pc>>

Finish(r) ==
    /\ pc[r] = "dispatched"
    /\ pc' = [pc EXCEPT ![r] = "done"]
    /\ ret' = [op |-> "finish", req |-> r, val |-> None]
    /\ UNCHANGED <<cls, inst, args, app, log>>

InitLifecycle == InitRequests({"r1"}, RootPaths)

NextLifecycle ==
    \/ \E r \in DOMAIN inst, rule \in SomeRules, va \in ViewArgsValues :
           MatchRequest(r, rule, va)
    \/ \E r \in DOMAIN inst, e \in ExcValues : MatchRequestFailed(r, e)
    \/ \E r \in DOMAIN inst : NoMatch(r)
    \/ \E r \in DOMAIN inst, op \in PropertyNames : ViewRead(r, op)
    \/ \E r \in DOMAIN inst : Finish(r)

SpecLifecycle == InitLifecycle /\ [][NextLifecycle]_vars

--------------------------------------------------------------------------
\* Properties.

HasDot(s) == \E i \in 1..Len(s) : s[i] = "."

\* p is s cut just before one of its "." separators, or s itself.
IsDottedPrefix(p, s) ==
    /\ Len(p) <= Len(s)
    /\ SubSeq(s, 1, Len(p)) = p
    /\ (Len(p) = Len(s) \/ s[Len(p) + 1] = ".")

\* C1: blueprint is present exactly when endpoint is present and contains
\* a ".", and it is then the part of endpoint before its last "."; in
\* every other case it is None, and it never raises.
C1_BlueprintBeforeLastDot ==
    \A r \in DOMAIN inst :
        LET e == endpoint(r)
            b == blueprint(r)
        IN  /\ b.t \in {"None", "str"}
            /\ (b # None) <=> (e # None /\ HasDot(e.s))
            /\ b # None =>
                   /\ Len(b.s) < Len(e.s)
                   /\ SubSeq(e.s, 1, Len(b.s)) = b.s
                   /\ e.s[Len(b.s) + 1] = "."
                   /\ \A j \in (Len(b.s) + 2)..Len(e.s) : e.s[j] # "."

\* endpoint "a.b.a" was assigned and blueprint was read as "a.b".
C1_Witness ==
    /\ ret.op = "blueprint"
    /\ endpoint("r1") = PyStr(<<"a", ".", "b", ".", "a">>)
    /\ ret.val = PyStr(<<"a", ".", "b">>)

\* C2: blueprints is the empty list when blueprint is None; otherwise it
\* lists every dotted prefix of blueprint, the blueprint itself first and
\* each ancestor after its child, down to the root.
C2_BlueprintsChain ==
    \A r \in DOMAIN inst :
        LET b == blueprint(r)
            bs == blueprints(r)
        IN  /\ bs.t = "list"
            /\ b = None => bs.items = <<>>
            /\ b # None =>
                   /\ Len(bs.items) >= 1
                   /\ bs.items[1] = b
                   /\ \A i \in 1..Len(bs.items) :
                          /\ bs.items[i].t = "str"
                          /\ IsDottedPrefix(bs.items[i].s, b.s)
                   /\ \A i \in 1..(Len(bs.items) - 1) :
                          Len(bs.items[i + 1].s) < Len(bs.items[i].s)
                   /\ \A k \in 0..Len(b.s) :
                          IsDottedPrefix(SubSeq(b.s, 1, k), b.s) =>
                              \E i \in 1..Len(bs.items) :
                                  bs.items[i].s = SubSeq(b.s, 1, k)

\* endpoint "a.b.a" was assigned and blueprints was read as ["a.b", "a"].
C2_Witness ==
    /\ ret.op = "blueprints"
    /\ endpoint("r1") = PyStr(<<"a", ".", "b", ".", "a">>)
    /\ ret.val = PyList(<<PyStr(<<"a", ".", "b">>), PyStr(<<"a">>)>>)

\* No routing field has been assigned on r since construction.
Unrouted(r) == DOMAIN inst[r] \cap RoutingAttrs = {}

\* C3: on a request with no routing field assigned since construction,
\* endpoint, blueprint and view_args are None and blueprints is empty,
\* whatever the construction arguments.
C3_UnroutedAbsent ==
    \A r \in DOMAIN inst :
        Unrouted(r) =>
            /\ endpoint(r) = None
            /\ blueprint(r) = None
            /\ blueprints(r) = PyList(<<>>)
            /\ GetAttr(r, "view_args") = None

\* An unrouted request constructed with root_path "/a/" had blueprints read.
C3_Witness ==
    /\ Unrouted("r1")
    /\ args["r1"].root_path = <<"/", "a", "/">>
    /\ ret.op = "blueprints"
    /\ ret.val = PyList(<<>>)

\* C4 as stated: script_root is the root_path argument, unchanged.
C4_ScriptRootIsRootPath ==
    \A r \in DOMAIN inst : script_root(r) = PyStr(args[r].root_path)

\* C4, amended: script_root is the root_path argument without its trailing
\* "/" characters, at every point of the request's lifetime.
C4_ScriptRootStripped ==
    \A r \in DOMAIN inst :
        LET a == args[r].root_path
            s == script_root(r)
        IN  /\ s.t = "str"
            /\ Len(s.s) <= Len(a)
            /\ SubSeq(a, 1, Len(s.s)) = s.s
            /\ \A j \in (Len(s.s) + 1)..Len(a) : a[j] = "/"
            /\ Len(s.s) > 0 => s.s[Len(s.s)] # "/"

\* A routed request constructed with root_path "/a/" had script_root read
\* as "/a".
C4_Witness ==
    /\ args["r1"].root_path = <<"/", "a", "/">>
    /\ ~Unrouted("r1")
    /\ ret.op = "script_root"
    /\ ret.val = PyStr(<<"/", "a">>)

\* C5: max_content_length is None when no application context is active
\* and the configured MAX_CONTENT_LENGTH when one is active and has the
\* entry; in neither case does it raise, and the access changes no state.
C5_MaxContentLength ==
    /\ [](ret.op = "max_content_length" =>
              /\ app = NoApp => ret.val = None
              /\ (app # NoApp /\ "MAX_CONTENT_LENGTH" \in DOMAIN app.config) =>
                     ret.val = app.config["MAX_CONTENT_LENGTH"])
    /\ [][ret'.op = "max_content_length" => UNCHANGED <<cls, inst, args, app>>]_vars

\* With MAX_CONTENT_LENGTH = 1048576 configured in an active context,
\* max_content_length was read as 1048576.
C5_Witness ==
    /\ ret.op = "max_content_length"
    /\ app # NoApp
    /\ ret.val = PyInt(1048576)

\* What a reader of request q can see of its routing state.
Observed(q) ==
    <<GetAttr(q, "url_rule"), GetAttr(q, "view_args"),
      GetAttr(q, "routing_exception"), endpoint(q), blueprint(q),
      blueprints(q)>>

\* C6: an assignment to a routing field of one request leaves the routing
\* fields and the derived properties of every other request unchanged.
C6_Independent ==
    [][\A q \in DOMAIN inst :
           (ret'.op = "setattr" /\ ret'.req # q) => Observed(q)' = Observed(q)]_vars

\* r1 has been routed to "a.b.a" while r2, never assigned, still shows the
\* defaults.
C6_Witness ==
    /\ ret.op = "setattr"
    /\ ret.req = "r1"
    /\ endpoint("r1") = PyStr(<<"a", ".", "b", ".", "a">>)
    /\ Unrouted("r2")
    /\ Observed("r2") = <<None, None, None, None, None, PyList(<<>>)>>

\* C7: url_rule is set exactly when view_args is set.
C7_RuleAndArgsTogether ==
    \A r \in DOMAIN inst :
        (GetAttr(r, "url_rule") # None) <=> (GetAttr(r, "view_args") # None)

\* The resolver matched a rule whose view takes no arguments.
C7_Witness ==
    /\ pc["r1"] = "dispatched"
    /\ GetAttr("r1", "url_rule") # None
    /\ GetAttr("r1", "view_args") = PyDict({})

RoutingFields(r) == [a \in RoutingAttrs |-> GetAttr(r, a)]

RoutingSet(r) == \E a \in RoutingAttrs : GetAttr(r, a) # None

\* C8: the resolver writes the routing result at most once; once a routing
\* field is set no routing field is written again; url_rule and
\* routing_exception are never both set; no view read precedes the write.
C8_WrittenOnceBeforeReads ==
    /\ [](\A r \in DOMAIN inst :
              /\ ~(GetAttr(r, "url_rule") # None
                     /\ GetAttr(r, "routing_exception") # None)
              /\ Cardinality({i \in 1..Len(log[r]) : log[r][i] = "write"}) <= 1
              /\ \A i, j \in 1..Len(log[r]) :
                     (log[r][i] = "read" /\ log[r][j] = "write") => j < i)
    /\ [][\A r \in DOMAIN inst :
              RoutingSet(r) => RoutingFields(r)' = RoutingFields(r)]_vars

\* A request whose match failed was read by view code and discarded.
C8_Witness ==
    /\ pc["r1"] = "done"
    /\ log["r1"] = <<"write", "read", "read">>
    /\ GetAttr("r1", "routing_exception") # None

\* C9 as stated: no property access raises, in any state.
C9_NeverRaises ==
    ret.op \in PropertyNames => ret.val.t # "raise"

\* C9, amended: endpoint, blueprint, blueprints, script_root and url_root
\* never raise, whatever the routing state; max_content_length raises only
\* when an application context is active and its config has no
\* MAX_CONTENT_LENGTH entry, and then it raises KeyError.
C9_RaisesOnlyMissingKey ==
    /\ \A r \in DOMAIN inst :
           \A op \in PropertyNames \ {"max_content_length"} :
               PropertyValue(r, op).t # "raise"
    /\ (ret.op \in PropertyNames /\ ret.val.t = "raise") =>
           /\ ret.op = "max_content_length"
           /\ app # NoApp
           /\ "MAX_CONTENT_LENGTH" \notin DOMAIN app.config
           /\ ret.val = Raise("KeyError")
    /\ (ret.op = "max_content_length" /\ app # NoApp
            /\ "MAX_CONTENT_LENGTH" \notin DOMAIN app.config) =>
           ret.val = Raise("KeyError")

\* With a routing failure stored and no context, max_content_length was
\* read and returned None.
C9_Witness ==
    /\ GetAttr("r1", "routing_exception") = PyExc("NotFound")
    /\ app = NoApp
    /\ ret.op = "max_content_length"
    /\ ret.val = None

\* C10: a read of endpoint returns the endpoint of the rule currently
\* assigned (None when there is none), blueprint and blueprints follow
\* it, and a read of a derived property changes no attribute.
C10_EndpointPure ==
    /\ [](ret.op \in DerivedNames =>
              LET d == inst[ret.req]
                  e == IF "url_rule" \in DOMAIN d /\ d["url_rule"] # None
                       THEN d["url_rule"].endpoint
                       ELSE None
              IN  /\ ret.op = "endpoint" => ret.val = e
                  /\ ret.op = "blueprint" =>
                         (ret.val # None <=> (e # None /\ HasDot(e.s)))
                  /\ ret.op = "blueprints" =>
                         (ret.val.items # <<>> <=> (e # None /\ HasDot(e.s))))
    /\ [][ret'.op \in DerivedNames => UNCHANGED <<cls, inst, args, app>>]_vars

\* After url_rule was assigned None again, endpoint was read as None.
C10_Witness ==
    /\ ret.op = "endpoint"
    /\ "url_rule" \in DOMAIN inst["r1"]
    /\ inst["r1"]["url_rule"] = None
    /\ ret.val = None

====
